---- MODULE Spec2Model ----
(***************************************************************************)
(* The chat-with-ai edge function (the Relay) and the sendMessage flow of  *)
(* the ChatInterface component that calls it.                              *)
(*                                                                         *)
(* JavaScript values are tagged records: the tag t names the type and each *)
(* type keeps its payload in a field of its own.  A string is the sequence *)
(* of its characters; a literal sentence of the source is written as a     *)
(* sequence of one unit holding the whole sentence.                        *)
(***************************************************************************)
EXTENDS Integers, Sequences, FiniteSets, TLC

\* ------------------------------------------------------------------ bounds
MaxTextLen == 2
MaxSends == 2

\* -------------------------------------------------------- JavaScript values
Undefined == [t |-> "undefined"]
Null == [t |-> "null"]
Str(s) == [t |-> "string", s |-> s]
Num(n) == [t |-> "number", n |-> n]
Arr(items) == [t |-> "array", items |-> items]
Obj(fields) == [t |-> "object", fields |-> fields]
\* the abrupt completion of an expression (a thrown error), not a value
Thrown == [t |-> "throw"]
\* a body text that JSON.parse rejects (empty, truncated, not JSON)
Unparsable == [t |-> "unparsable"]

IsThrown(v) == v.t = "throw"

\* ToBoolean, as `!x` and `a && b` apply it
Truthy(v) ==
  CASE v.t = "undefined" -> FALSE
    [] v.t = "null" -> FALSE
    [] v.t = "string" -> Len(v.s) > 0
    [] v.t = "number" -> v.n # 0
    [] OTHER -> TRUE

\* v.k : a TypeError on undefined and null, undefined when the member is absent
Get(v, k) ==
  CASE v.t = "throw" -> Thrown
    [] v.t \in {"undefined", "null"} -> Thrown
    [] v.t = "object" -> IF k \in DOMAIN v.fields THEN v.fields[k] ELSE Undefined
    [] OTHER -> Undefined

\* v[0]
Index0(v) ==
  CASE v.t = "throw" -> Thrown
    [] v.t \in {"undefined", "null"} -> Thrown
    [] v.t = "array" -> IF Len(v.items) > 0 THEN v.items[1] ELSE Undefined
    [] v.t = "string" -> IF Len(v.s) > 0 THEN Str(<<v.s[1]>>) ELSE Undefined
    [] OTHER -> Undefined

\* a && b, b evaluated only when a is truthy
AndAlso(a, b) == IF IsThrown(a) THEN Thrown ELSE IF Truthy(a) THEN b ELSE a

\* JSON.stringify of an object: members whose value is undefined are left out
JSONStringify(o) ==
  [kind |-> "json",
   value |-> Obj([k \in {f \in DOMAIN o.fields : o.fields[f].t # "undefined"}
                    |-> o.fields[k]])]

\* Body.json(): rejects when the text is not JSON
ParseJSON(body) == IF body.t = "unparsable" THEN Thrown ELSE body

\* ------------------------------------------------------------------- texts
Char == {" ", "a"}
Texts == UNION {[1..n -> Char] : n \in 0..MaxTextLen}
\* the texts typed into the client, and the replies generated for them
TypedTexts == {<<>>, <<" ">>, <<"a">>}

\* String.prototype.trim: white space removed from both ends
IsSpace(c) == c = " "
RECURSIVE TrimStart(_)
TrimStart(s) == IF s # <<>> /\ IsSpace(Head(s)) THEN TrimStart(Tail(s)) ELSE s
RECURSIVE TrimEnd(_)
TrimEnd(s) ==
  IF s # <<>> /\ IsSpace(s[Len(s)]) THEN TrimEnd(SubSeq(s, 1, Len(s) - 1)) ELSE s
Trim(s) == TrimEnd(TrimStart(s))

MessageRequired == <<"Message is required">>
NotConfiguredText ==
  <<"I'm sorry, but the AI service is not properly configured. Please contact the administrator to set up the Gemini API key.">>
FallbackText == <<"I'm sorry, I couldn't generate a response at this time.">>
ApologyText ==
  <<"I'm sorry, I encountered an error while processing your message. Please try again.">>

\* ---------------------------------------------------------------- responses
corsHeaders ==
  ("Access-Control-Allow-Origin" :> "*") @@
  ("Access-Control-Allow-Headers" :> "authorization, x-client-info, apikey, content-type")

jsonHeaders == corsHeaders @@ ("Content-Type" :> "application/json")

\* new Response(body, init): status defaults to 200; a string body given no
\* Content-Type is sent as text/plain
NewResponse(body, status, headers) ==
  [status |-> status,
   headers |-> IF "Content-Type" \in DOMAIN headers THEN headers
               ELSE headers @@ ("Content-Type" :> "text/plain;charset=UTF-8"),
   body |-> body]

NoResponse == [status |-> 0, headers |-> ("none" :> "none"), body |-> [kind |-> "none"]]

PreflightResponse == NewResponse([kind |-> "text", text |-> "ok"], 200, corsHeaders)

ValidationResponse ==
  NewResponse(JSONStringify(Obj([error |-> Str(MessageRequired)])), 400, jsonHeaders)

NotConfiguredResponse ==
  NewResponse(JSONStringify(Obj([response |-> Str(NotConfiguredText)])), 200, jsonHeaders)

SuccessResponse(response) ==
  NewResponse(JSONStringify(Obj([response |-> response])), 200, jsonHeaders)

\* variant: the catch block answers without the CORS headers
CatchResponseNoCors(error) ==
  NewResponse(JSONStringify(Obj([response |-> Str(ApologyText)])), 500,
              ("Content-Type" :> "application/json"))

\* variant: an upstream status is passed on as a gateway error
CatchResponseByCause(error) ==
  NewResponse(JSONStringify(Obj([response |-> Str(ApologyText)])),
              IF error = "status" THEN 502 ELSE 500, jsonHeaders)

CatchResponse(error) ==
  NewResponse(JSONStringify(Obj([response |-> Str(ApologyText)])), 500, jsonHeaders)

\* ------------------------------------------------- the Relay: its inputs
Methods == {"OPTIONS", "POST", "GET"}

\* the message values a parsed body can carry
MessageValues == {Null, Num(0), Num(7)} \cup {Str(s) : s \in Texts}

\* request bodies: unparsable text, or the JSON value the text denotes
RequestBodies ==
  {Unparsable, Null, Obj([text |-> Str(<<"a">>)])}
    \cup {Obj([message |-> m]) : m \in MessageValues}

Requests == [method : Methods, body : RequestBodies]

\* Deno.env.get('GEMINI_API_KEY'): undefined when unset, else the string set
ApiKeys == {Undefined, Str(<<>>), Str(<<"k">>)}

\* success payloads of generateContent, well-formed and not
Candidate(content) == Obj([candidates |-> Arr(<<Obj([content |-> content])>>)])
WellFormedPayload(text) ==
  Candidate(Obj([parts |-> Arr(<<Obj([text |-> Str(text)])>>)]))
MalformedPayloads ==
  { Obj([promptFeedback |-> Str(<<"SAFETY">>)]),
    Obj([candidates |-> Arr(<<>>)]),
    Obj([candidates |-> Arr(<<Obj([finishReason |-> Str(<<"SAFETY">>)])>>)]),
    Candidate(Obj([role |-> Str(<<"model">>)])),
    Candidate(Obj([parts |-> Arr(<<>>)])),
    Candidate(Obj([parts |-> Arr(<<Obj([inlineData |-> Str(<<"a">>)])>>)])) }
Payloads == {WellFormedPayload(s) : s \in Texts} \cup MalformedPayloads \cup {Null}

\* how the fetch settles: rejected (no response), or a response with a status
NetworkError == [kind |-> "network_error", status |-> 0, body |-> Unparsable]
UpstreamResponse(status, body) == [kind |-> "response", status |-> status, body |-> body]
UpstreamOutcomes ==
  {NetworkError}
    \cup {UpstreamResponse(st, Unparsable) : st \in {200, 429, 500}}
    \cup {UpstreamResponse(200, p) : p \in Payloads}

\* Response.ok
Ok(r) == r.status \in 200..299

\* ------------------------------------------ the Relay: the handler's parts
\* variant: the body is parsed before the method is looked at
IsPreflightAfterParse(r) == r.method = "OPTIONS" /\ ~IsThrown(ParseJSON(r.body))

IsPreflight(r) == r.method = "OPTIONS"

\* const { message } = await req.json()
ReadMessage(r) == Get(ParseJSON(r.body), "message")

\* variant: only an omitted message is rejected
MessageMissingOmittedOnly(m) == m.t = "undefined"

\* if (!message)
MessageMissing(m) == ~Truthy(m)

\* variant: only an empty key counts as missing
KeyMissingEmptyOnly(key) == key.t = "string" /\ Len(key.s) = 0

\* if (!geminiApiKey)
KeyMissing(key) == ~Truthy(key)

\* variant: an empty text is replaced by the fallback sentence as well
ExtractTextOrFallback(geminiData) ==
  LET text == Get(Index0(Get(Get(Index0(Get(geminiData, "candidates")), "content"),
                             "parts")), "text")
  IN  IF IsThrown(text) THEN Thrown
      ELSE IF Truthy(text) THEN text ELSE Str(FallbackText)

\* the text of the reply, from the payload of a successful upstream response
ExtractText(geminiData) ==
  LET candidates == Get(geminiData, "candidates")
      first == Index0(candidates)
      content == Get(first, "content")
      guard == AndAlso(AndAlso(candidates, first), content)
  IN  IF IsThrown(guard) THEN Thrown
      ELSE IF Truthy(guard) THEN Get(Index0(Get(content, "parts")), "text")
      ELSE Str(FallbackText)

VARIABLES
  rpc,            \* where the handler is: idle, parsing, fetching, reading, done
  req,            \* the request being handled
  geminiApiKey,   \* the environment's GEMINI_API_KEY during this invocation
  message,        \* the handler's local `message`
  geminiResponse, \* the handler's local `geminiResponse`
  bodyRead,       \* whether req.json() was called in this invocation
  upstreamCalls,  \* fetches issued in this invocation
  settledCalls,   \* fetches settled in this invocation
  thrown,         \* what was thrown into the catch block, "none" if nothing
  resp            \* the response returned, NoResponse until then

relayVars ==
  <<rpc, req, geminiApiKey, message, geminiResponse, bodyRead, upstreamCalls,
    settledCalls, thrown, resp>>

VARIABLES
  conversationsTable,  \* storage: the rows of `conversations`, id = position
  messagesTable,       \* storage: the rows of `messages`, in creation order
  currentConversation, \* state: the id of the open conversation, 0 for null
  newMessage,          \* state: the text in the input
  loading,             \* state: the loading flag
  runs                 \* the invocations of sendMessage, in order of invocation

clientVars ==
  <<conversationsTable, messagesTable, currentConversation, newMessage, loading, runs>>

NoRequest == [method |-> "none", body |-> Unparsable]

RelayInit ==
  /\ rpc = "idle"
  /\ req = NoRequest
  /\ geminiApiKey = Undefined
  /\ message = Undefined
  /\ geminiResponse = NetworkError
  /\ bodyRead = FALSE
  /\ upstreamCalls = 0
  /\ settledCalls = 0
  /\ thrown = "none"
  /\ resp = NoResponse

\* the catch block: whatever was thrown, one response
Catch(cause) ==
  /\ thrown' = cause
  /\ resp' = CatchResponse(cause)
  /\ rpc' = "done"

Return(r) ==
  /\ resp' = r
  /\ rpc' = "done"
  /\ UNCHANGED thrown

\* the platform hands the handler a request; invocations share nothing
Receive ==
  /\ UNCHANGED clientVars
  /\ rpc \in {"idle", "done"}
  /\ \E r \in Requests, key \in ApiKeys :
       /\ req' = r
       /\ geminiApiKey' = key
  /\ rpc' = "start"
  /\ message' = Undefined
  /\ geminiResponse' = NetworkError
  /\ bodyRead' = FALSE
  /\ upstreamCalls' = 0
  /\ settledCalls' = 0
  /\ thrown' = "none"
  /\ resp' = NoResponse

\* lines 11-16: the preflight answer, or the start of req.json()
Start ==
  /\ UNCHANGED clientVars
  /\ rpc = "start"
  /\ IF IsPreflight(req)
       THEN /\ Return(PreflightResponse)
            /\ UNCHANGED bodyRead
       ELSE /\ bodyRead' = TRUE
            /\ rpc' = "parsing"
            /\ UNCHANGED <<thrown, resp>>
  /\ UNCHANGED <<req, geminiApiKey, message, geminiResponse, upstreamCalls, settledCalls>>

\* the fetch of lines 43-55 is issued
IssueFetch ==
  /\ upstreamCalls' = upstreamCalls + 1
  /\ rpc' = "fetching"
  /\ UNCHANGED <<thrown, resp>>

\* lines 16-55: req.json() settles; validation, configuration check, fetch
BodyParsed ==
  /\ UNCHANGED clientVars
  /\ rpc = "parsing"
  /\ LET m == ReadMessage(req) IN
       IF IsThrown(m)
         THEN /\ Catch("body")
              /\ UNCHANGED <<message, upstreamCalls>>
         ELSE /\ message' = m
              /\ IF MessageMissing(m)
                   THEN Return(ValidationResponse) /\ UNCHANGED upstreamCalls
                   ELSE IF KeyMissing(geminiApiKey)
                     THEN Return(NotConfiguredResponse) /\ UNCHANGED upstreamCalls
                     ELSE IssueFetch
  /\ UNCHANGED <<req, geminiApiKey, geminiResponse, bodyRead, settledCalls>>

\* variant: a failed fetch is tried again
FetchRetried(outcome) ==
  /\ upstreamCalls' = upstreamCalls + 1
  /\ rpc' = "fetching"
  /\ UNCHANGED <<thrown, resp>>

\* a rejected fetch goes to the catch block
FetchFailed(outcome) == Catch("network") /\ UNCHANGED upstreamCalls

\* lines 43-61: the fetch settles; the status check; geminiResponse.json() starts
FetchSettled ==
  /\ UNCHANGED clientVars
  /\ rpc = "fetching"
  /\ \E outcome \in UpstreamOutcomes :
       /\ geminiResponse' = outcome
       /\ settledCalls' = settledCalls + 1
       /\ IF outcome.kind = "network_error"
            THEN FetchFailed(outcome)
            ELSE IF ~Ok(outcome)
              THEN Catch("status") /\ UNCHANGED upstreamCalls
              ELSE /\ rpc' = "reading"
                   /\ UNCHANGED <<thrown, resp, upstreamCalls>>
  /\ UNCHANGED <<req, geminiApiKey, message, bodyRead>>

\* lines 61-75: the payload is parsed, the text extracted, the reply returned
PayloadRead ==
  /\ UNCHANGED clientVars
  /\ rpc = "reading"
  /\ LET geminiData == ParseJSON(geminiResponse.body)
         response == ExtractText(geminiData)
     IN  IF IsThrown(geminiData)
           THEN Catch("payload")
           ELSE IF IsThrown(response)
             THEN Catch("extract")
             ELSE Return(SuccessResponse(response))
  /\ UNCHANGED <<req, geminiApiKey, message, geminiResponse, bodyRead, upstreamCalls,
                 settledCalls>>

RelayNext == Receive \/ Start \/ BodyParsed \/ FetchSettled \/ PayloadRead


\* the handler from request to response, given how the environment and the
\* upstream answer: what a caller of the Relay receives
Handle(r, key, outcome) ==
  IF IsPreflight(r) THEN PreflightResponse
  ELSE LET m == ReadMessage(r) IN
    IF IsThrown(m) THEN CatchResponse("body")
    ELSE IF MessageMissing(m) THEN ValidationResponse
    ELSE IF KeyMissing(key) THEN NotConfiguredResponse
    ELSE IF outcome.kind = "network_error" THEN CatchResponse("network")
    ELSE IF ~Ok(outcome) THEN CatchResponse("status")
    ELSE LET geminiData == ParseJSON(outcome.body)
             response == ExtractText(geminiData)
         IN  IF IsThrown(geminiData) THEN CatchResponse("payload")
             ELSE IF IsThrown(response) THEN CatchResponse("extract")
             ELSE SuccessResponse(response)

\* ----------------------------------------------- the client: ChatInterface
\* sendMessage reads newMessage, loading and currentConversation and writes the
\* two tables; the rendered lists (messages, conversations) are outputs of the
\* loads, which sendMessage never reads, and the loads appear by their settling.
\* supabase.functions.invoke: { data, error }; a status outside 2xx, or no
\* answer at all, is an error; otherwise data is the parsed JSON body
InvokeError == [error |-> TRUE, data |-> Null]
InvokeResult(r) ==
  IF r.status \in 200..299 /\ r.body.kind = "json"
    THEN [error |-> FALSE, data |-> r.body.value]
    ELSE InvokeError

\* how the upstream answers the calls made for the client
ClientUpstreamOutcomes ==
  { NetworkError,
    UpstreamResponse(200, WellFormedPayload(<<"a">>)) }

\* what invoking chat-with-ai with { message } can give the client
InvokeResults(userMessage) ==
  {InvokeError} \cup
  {InvokeResult(Handle([method |-> "POST", body |-> Obj([message |-> Str(userMessage)])],
                       key, outcome)) :
     key \in {Str(<<"k">>)}, outcome \in ClientUpstreamOutcomes}

TitleLen == 50
\* newMessage.slice(0, 50) + '...'
Title(text) ==
  SubSeq(text, 1, IF Len(text) < TitleLen THEN Len(text) ELSE TitleLen) \o <<"...">>

\* if (!newMessage.trim() || loading) return;
SendGuard(text, isLoading) == Trim(text) = <<>> \/ isLoading

\* variant: the error of a step is not looked at
ContinuesAlways(error) == TRUE

\* if (error) throw error: the try block goes on only without an error
Continues(error) == ~error

ClientInit ==
  /\ conversationsTable = <<>>
  /\ messagesTable = <<>>
  /\ currentConversation = 0
  /\ newMessage = <<>>
  /\ loading = FALSE
  /\ runs = <<>>

InProgress(run) == run.pc # "returned"

Step(name, ok) == [step |-> name, ok |-> ok]

\* onChange of the textarea, which is disabled while loading
Type ==
  /\ UNCHANGED relayVars
  /\ ~loading
  /\ \E text \in TypedTexts : newMessage' = text
  /\ UNCHANGED <<conversationsTable, messagesTable, currentConversation, loading, runs>>

\* lines 152-165: the turn enters the try block and issues the user-row insert;
\* newMessage is the one of the render the call was made in
EnterTry(run) == [run EXCEPT !.userMessage = run.newMessage, !.pc = "insertingUser"]

\* the call has returned: its locals are gone, what it did is kept
Returned(run, loadingNow) ==
  [run EXCEPT !.pc = "returned", !.newMessage = <<>>, !.conversationId = 0,
              !.userMessage = <<>>, !.aiResponse = InvokeError,
              !.loadingAtReturn = loadingNow]

\* lines 123-165: sendMessage is called, with the state of the last render
SendMessage ==
  /\ UNCHANGED relayVars
  /\ Len(runs) < MaxSends
  /\ LET run == [pc |-> "returned",
                 newMessage |-> newMessage,
                 conversationId |-> currentConversation,
                 userMessage |-> <<>>,
                 aiResponse |-> InvokeError,
                 overlapped |-> \E i \in 1..Len(runs) : InProgress(runs[i]),
                 created |-> FALSE,
                 loadingAtReturn |-> loading,
                 steps |-> <<>>]
     IN  IF SendGuard(newMessage, loading)
           THEN /\ runs' = Append(runs, Returned(run, loading))
                /\ UNCHANGED <<newMessage, loading>>
           ELSE IF currentConversation = 0
             THEN /\ runs' = Append(runs, [run EXCEPT !.pc = "creating"])
                  /\ UNCHANGED <<newMessage, loading>>
             ELSE /\ runs' = Append(runs, EnterTry(run))
                  /\ newMessage' = <<>>
                  /\ loading' = TRUE
  /\ UNCHANGED <<conversationsTable, messagesTable, currentConversation>>

\* onClick of the send button, disabled={!newMessage.trim() || loading}
ClickSend ==
  /\ ~(Trim(newMessage) = <<>> \/ loading)
  /\ SendMessage

\* Enter without Shift in the textarea, disabled={loading}
PressEnter ==
  /\ ~loading
  /\ SendMessage

\* lines 131-149: the insert of the new conversation settles
CreateSettled ==
  /\ UNCHANGED relayVars
  /\ \E i \in 1..Len(runs), error \in BOOLEAN :
       /\ runs[i].pc = "creating"
       /\ IF error
            THEN /\ runs' = [runs EXCEPT ![i] = Returned(@, loading)]
                 /\ UNCHANGED <<conversationsTable, currentConversation>>
            ELSE LET id == Len(conversationsTable) + 1 IN
                 /\ conversationsTable' =
                      Append(conversationsTable,
                             [title |-> Title(runs[i].newMessage), by |-> i])
                 /\ currentConversation' = id
                 /\ runs' = [runs EXCEPT ![i].pc = "loadingConversations",
                                         ![i].conversationId = id,
                                         ![i].created = TRUE]
  /\ UNCHANGED <<messagesTable, newMessage, loading>>

\* lines 140-165: loadConversations settles (it catches its own error), then
\* the turn enters the try block
ConversationsLoaded ==
  /\ UNCHANGED relayVars
  /\ \E i \in 1..Len(runs) :
       /\ runs[i].pc = "loadingConversations"
       /\ runs' = [runs EXCEPT ![i] = EnterTry(runs[i])]
  /\ newMessage' = <<>>
  /\ loading' = TRUE
  /\ UNCHANGED <<conversationsTable, messagesTable, currentConversation>>

\* lines 199-208: catch (log, toast) and finally
Fail(i, step) ==
  /\ runs' = [runs EXCEPT ![i] = Returned([@ EXCEPT !.steps = Append(@, step)], FALSE)]
  /\ loading' = FALSE

\* lines 158-181: the user-row insert settles; the temporary message is shown
\* and the Relay is invoked
UserInsertSettled ==
  /\ UNCHANGED relayVars
  /\ \E i \in 1..Len(runs), error \in BOOLEAN :
       /\ runs[i].pc = "insertingUser"
       /\ messagesTable' =
            IF error THEN messagesTable
            ELSE Append(messagesTable,
                        [conversation_id |-> runs[i].conversationId, role |-> "user",
                         content |-> Str(runs[i].userMessage), by |-> i])
       /\ IF Continues(error)
            THEN /\ runs' = [runs EXCEPT ![i].pc = "invoking",
                                         ![i].steps = Append(@, Step("user", ~error))]
                 /\ UNCHANGED loading
            ELSE Fail(i, Step("user", ~error))
  /\ UNCHANGED <<conversationsTable, currentConversation, newMessage>>

\* lines 179-192: the Relay call settles; the assistant-row insert is issued
InvokeSettled ==
  /\ UNCHANGED relayVars
  /\ \E i \in 1..Len(runs) :
       /\ runs[i].pc = "invoking"
       /\ \E result \in InvokeResults(runs[i].userMessage) :
            IF Continues(result.error) /\ ~IsThrown(Get(result.data, "response"))
              THEN /\ runs' = [runs EXCEPT ![i].pc = "insertingAssistant",
                                           ![i].aiResponse = result,
                                           ![i].steps = Append(@, Step("relay", ~result.error))]
                   /\ UNCHANGED loading
              ELSE Fail(i, Step("relay", ~result.error))
  /\ UNCHANGED <<conversationsTable, messagesTable, currentConversation, newMessage>>

\* lines 186-197: the assistant-row insert settles; the reload is started
AssistantInsertSettled ==
  /\ UNCHANGED relayVars
  /\ \E i \in 1..Len(runs), error \in BOOLEAN :
       /\ runs[i].pc = "insertingAssistant"
       /\ messagesTable' =
            IF error THEN messagesTable
            ELSE Append(messagesTable,
                        [conversation_id |-> runs[i].conversationId, role |-> "assistant",
                         content |-> Get(runs[i].aiResponse.data, "response"), by |-> i])
       /\ IF Continues(error)
            THEN /\ runs' = [runs EXCEPT ![i].pc = "reloading",
                                         ![i].steps = Append(@, Step("assistant", ~error))]
                 /\ UNCHANGED loading
            ELSE Fail(i, Step("assistant", ~error))
  /\ UNCHANGED <<conversationsTable, currentConversation, newMessage>>

\* lines 197-208: loadMessages settles (it catches its own error); finally
ReloadSettled ==
  /\ UNCHANGED relayVars
  /\ \E i \in 1..Len(runs), error \in BOOLEAN :
       /\ runs[i].pc = "reloading"
       /\ runs' = [runs EXCEPT
                    ![i] = Returned([@ EXCEPT !.steps = Append(@, Step("reload", ~error))],
                                    FALSE)]
  /\ loading' = FALSE
  /\ UNCHANGED <<conversationsTable, messagesTable, currentConversation, newMessage>>

ClientNext ==
  \/ Type
  \/ ClickSend
  \/ PressEnter
  \/ CreateSettled
  \/ ConversationsLoaded
  \/ UserInsertSettled
  \/ InvokeSettled
  \/ AssistantInsertSettled
  \/ ReloadSettled

\* ------------------------------------------------------- specifications
vars == <<relayVars, clientVars>>

Init == RelayInit /\ ClientInit

\* the Relay, serving one request after another
Next == RelayNext

Spec == Init /\ [][Next]_vars

\* the client, with the Relay seen through what its calls return
ClientSpec == Init /\ [][ClientNext]_vars

\* --------------------------------------------------------------- claims
Done == rpc = "done"
NotPreflight == req.method \in Methods \ {"OPTIONS"}
HasCors(r) ==
  /\ "Access-Control-Allow-Origin" \in DOMAIN r.headers
  /\ r.headers["Access-Control-Allow-Origin"] = "*"
  /\ "Access-Control-Allow-Headers" \in DOMAIN r.headers
  /\ r.headers["Access-Control-Allow-Headers"] =
       "authorization, x-client-info, apikey, content-type"
HasJsonType(r) ==
  "Content-Type" \in DOMAIN r.headers /\ r.headers["Content-Type"] = "application/json"
\* the body is the JSON object with the one member name: text
BodyIs(r, name, text) ==
  r.body = [kind |-> "json", value |-> Obj((name :> Str(text)))]
\* the message member of a JSON object body, undefined when omitted
SentMessage ==
  IF "message" \in DOMAIN req.body.fields THEN req.body.fields.message ELSE Undefined
ObjectBody == req.body.t = "object"
\* the request passed validation and the configuration check
PassedChecks ==
  /\ NotPreflight /\ ObjectBody
  /\ SentMessage.t = "number" => SentMessage.n # 0
  /\ SentMessage.t = "string" => SentMessage.s # <<>>
  /\ SentMessage.t \notin {"undefined", "null"}
  /\ geminiApiKey.t = "string" /\ geminiApiKey.s # <<>>
UpstreamFailed ==
  settledCalls >= 1 /\
  (geminiResponse.kind = "network_error" \/ geminiResponse.status \notin 200..299)
UpstreamSucceeded ==
  settledCalls >= 1 /\ geminiResponse.kind = "response" /\ geminiResponse.status \in 200..299

\* the step-wise handler and the handler as a function agree
HandleAgrees == Done => resp = Handle(req, geminiApiKey, geminiResponse)

\* C1 as stated: a non-OPTIONS request whose message is omitted, null, empty or
\* whitespace-only is answered 400 {"error":"Message is required"}.
C1_BlankRejected ==
  (Done /\ NotPreflight /\ ObjectBody /\
   (SentMessage.t \in {"undefined", "null"} \/
    (SentMessage.t = "string" /\ Trim(SentMessage.s) = <<>>)))
    => (resp.status = 400 /\ BodyIs(resp, "error", MessageRequired))

\* C1 amended: a non-OPTIONS request whose message is omitted, null or the empty
\* string is answered 400 {"error":"Message is required"}, with or without the
\* credential; a whitespace-only message is not rejected by the validation.
C1_EmptyRejected ==
  /\ (Done /\ NotPreflight /\ ObjectBody /\
      (SentMessage.t \in {"undefined", "null"} \/
       (SentMessage.t = "string" /\ SentMessage.s = <<>>)))
       => (resp.status = 400 /\ BodyIs(resp, "error", MessageRequired))
  /\ (Done /\ NotPreflight /\ ObjectBody /\ SentMessage.t = "string" /\
      SentMessage.s # <<>>)
       => resp.status # 400

C1_Witness ==
  /\ Done /\ req.method = "POST" /\ ObjectBody
  /\ SentMessage = Str(<<>>)
  /\ geminiApiKey = Str(<<"k">>)
  /\ resp.status = 400

\* C2 as stated: every path ends in a response whose body is well-formed JSON and
\* whose headers include both CORS headers and Content-Type: application/json.
C2_AlwaysJson == Done => (resp.body.kind = "json" /\ HasCors(resp) /\ HasJsonType(resp))

\* C2 amended: every path other than the preflight ends in a JSON body with both
\* CORS headers and Content-Type: application/json; the preflight answer has both
\* CORS headers, the plain text body ok and no JSON content type; whatever is
\* thrown ends in a response.
C2_JsonExceptPreflight ==
  /\ thrown # "none" => Done
  /\ Done =>
       /\ resp # NoResponse
       /\ HasCors(resp)
       /\ IF req.method = "OPTIONS"
            THEN resp.body = [kind |-> "text", text |-> "ok"] /\ ~HasJsonType(resp)
            ELSE resp.body.kind = "json" /\ HasJsonType(resp)

C2_Witness == Done /\ thrown = "extract" /\ resp.body.kind = "json" /\ HasCors(resp)

\* C3 as stated: a successful upstream answer whose text is absent or malformed
\* (candidates absent or empty, content absent, parts absent or empty, text
\* absent) is answered 200 with the fallback sentence in `response`.
C3_FallbackOnMalformed ==
  (Done /\ UpstreamSucceeded /\ geminiResponse.body \in MalformedPayloads)
    => (resp.status = 200 /\ BodyIs(resp, "response", FallbackText))

\* C4 as stated: with the credential unset the answer is 200 with the guidance
\* text, whatever the message of the request.
C4_UnsetAlwaysGuidance ==
  (Done /\ NotPreflight /\ ObjectBody /\ geminiApiKey = Undefined)
    => (resp.status = 200 /\ BodyIs(resp, "response", NotConfiguredText))

\* C4 amended: with the credential unset, a non-OPTIONS request that carries a
\* non-empty message is answered 200 with the guidance text, whatever that
\* message is; a request without one is answered 400 as in C1.
C4_UnsetGuidance ==
  (Done /\ NotPreflight /\ ObjectBody /\ geminiApiKey = Undefined /\
   SentMessage.t = "string" /\ SentMessage.s # <<>>)
    => (resp.status = 200 /\ BodyIs(resp, "response", NotConfiguredText))

C4_Witness ==
  /\ Done /\ req.method = "POST" /\ ObjectBody /\ geminiApiKey = Undefined
  /\ SentMessage = Str(<<"a", " ">>)
  /\ resp.status = 200 /\ BodyIs(resp, "response", NotConfiguredText)

\* C5: every failure thrown while a non-OPTIONS request is handled (unparsable
\* body, failed upstream call, upstream status outside 2xx, anything else thrown)
\* gives status 500 and the body {"response": <apology>} and nothing else.
C5_UniformFailure ==
  (Done /\ NotPreflight /\
   (req.body = Unparsable \/ UpstreamFailed \/ thrown # "none"))
    => (resp.status = 500 /\ BodyIs(resp, "response", ApologyText))

C5_Witness ==
  /\ Done /\ req.method = "POST" /\ geminiResponse = UpstreamResponse(429, Unparsable)
  /\ settledCalls = 1 /\ resp.status = 500

\* C6: an OPTIONS request is answered first, whatever its body and the
\* credential: 200, body ok, both CORS headers, no body parsing, no upstream call.
C6_PreflightFirst ==
  req.method = "OPTIONS" =>
    /\ rpc \in {"start", "done"}
    /\ ~bodyRead
    /\ upstreamCalls = 0
    /\ Done => /\ resp.status = 200
               /\ resp.body = [kind |-> "text", text |-> "ok"]
               /\ HasCors(resp)

C6_Witness ==
  /\ Done /\ req.method = "OPTIONS" /\ req.body = Unparsable
  /\ geminiApiKey = Str(<<"k">>) /\ resp.status = 200

\* C7: a non-empty message, a configured credential and a successful upstream
\* answer with a well-formed candidate give 200 and `response` equal to
\* candidates[0].content.parts[0].text, for every generated text.
C7_ExactText ==
  \A text \in Texts :
    (Done /\ PassedChecks /\ UpstreamSucceeded /\
     geminiResponse.body = WellFormedPayload(text))
      => (resp.status = 200 /\ BodyIs(resp, "response", text))

C7_Witness ==
  /\ Done /\ PassedChecks /\ UpstreamSucceeded
  /\ geminiResponse.body = WellFormedPayload(<<"a", " ">>)
  /\ BodyIs(resp, "response", <<"a", " ">>)

\* C8: at most one upstream call per invocation and no retry: none for a
\* preflight, a rejected request or an unset credential; exactly one, settled
\* before the response, for a request that passes both checks; a failed call
\* leads directly to the 500 response.
C8_OneCall ==
  /\ upstreamCalls <= 1
  /\ settledCalls <= upstreamCalls
  /\ resp # NoResponse => settledCalls = upstreamCalls
  /\ (Done /\ ~PassedChecks) => upstreamCalls = 0
  /\ (Done /\ PassedChecks) => (upstreamCalls = 1 /\ settledCalls = 1)
  /\ UpstreamFailed => (Done /\ resp.status = 500 /\ upstreamCalls = 1)

C8_Witness ==
  /\ Done /\ PassedChecks /\ upstreamCalls = 1 /\ settledCalls = 1
  /\ geminiResponse = NetworkError /\ resp.status = 500

\* the order of the steps of one turn
TurnOrder == <<"user", "relay", "assistant", "reload">>

\* C9: the steps of a run of sendMessage happen in the order user row, Relay,
\* assistant row, reload; a step runs only if every earlier one finished without
\* error; an assistant row is written only for a turn whose user row was written
\* and whose Relay call returned no error; loading is false when the run ends.
C9_TurnOrder ==
  \A i \in 1..Len(runs) :
    LET steps == runs[i].steps IN
    /\ Len(steps) <= Len(TurnOrder)
    /\ \A k \in 1..Len(steps) : steps[k].step = TurnOrder[k]
    /\ \A k \in 2..Len(steps) : steps[k - 1].ok
    /\ \A a \in 1..Len(messagesTable) :
         (messagesTable[a].by = i /\ messagesTable[a].role = "assistant") =>
           /\ Len(steps) >= 3 /\ steps[1].ok /\ steps[2].ok
           /\ \E u \in 1..(a - 1) :
                messagesTable[u].by = i /\ messagesTable[u].role = "user"
    /\ (runs[i].pc = "returned" /\ steps # <<>>) =>
         /\ ~runs[i].loadingAtReturn
         /\ (\A j \in 1..Len(runs) : ~InProgress(runs[j])) => ~loading

C9_Witness ==
  \E i \in 1..Len(runs) :
    /\ runs[i].pc = "returned" /\ Len(runs[i].steps) = 4 /\ runs[i].created
    /\ \E a \in 1..Len(messagesTable) :
         messagesTable[a].by = i /\ messagesTable[a].role = "assistant"
    /\ ~loading

\* C10 as stated: a sendMessage invoked while an earlier invocation has not
\* finished creates no conversation, writes no message row and calls no Relay.
C10_SingleSend ==
  \A i \in 1..Len(runs) :
    runs[i].overlapped =>
      /\ ~runs[i].created
      /\ runs[i].steps = <<>>
      /\ \A a \in 1..Len(messagesTable) : messagesTable[a].by # i


====
